---- MODULE Spec2Model ----
(***************************************************************************)
(* Model of the spine-ts core runtime pieces: Slot attachment state,       *)
(* VertexAttachment.computeWorldVertices, MeshAttachment linking, copies   *)
(* and UV remap, attachment ids, the SkeletonData find methods and the     *)
(* PathConstraintData target.                                              *)
(* Numbers are JavaScript doubles in the source; the model uses integers,  *)
(* chosen so that every operation of the source on them is exact.          *)
(***************************************************************************)
EXTENDS Integers, Sequences, FiniteSets, TLC

\* ------------------------------------------------------------------ bounds
MaxTime == 3        \* the skeleton clock runs from 0 to MaxTime
MaxDelta == 2       \* largest single clock advance
NumVerts == 3       \* vertices of the attachments that are skinned
MaxGroup == 2       \* most bones that influence one vertex
MaxOffset == 1      \* largest output offset
MaxStride == 3      \* largest output stride
MaxCalls == 3       \* mesh calls that link, construct or write
MaxNames == 3       \* longest list of names a SkeletonData is loaded from
MaxUV == 1          \* largest region-relative texture coordinate

\* ------------------------------------------------------------- Slot state
\* time: Skeleton.time; slot: the fields of one Slot; data: its SlotData;
\* skin: the skeleton's active skin. last records the last call and the slot
\* before it; changedAt the clock at the last change of slot.attachment.
VARIABLES time, slot, data, skin, last, changedAt

\* ------------------------------------------- skinning (computeWorldVertices)
\* skeletonBones: Skeleton.bones; mesh: the vertex attachment; worldVertices:
\* the caller's output buffer; call: the arguments of the last call and the
\* buffer before it.
VARIABLES skeletonBones, mesh, worldVertices, call

skinVars == <<skeletonBones, mesh, worldVertices, call>>

\* ------------------------------------------------- mesh attachments (heap)
\* meshes: the MeshAttachment objects; heap: the arrays they refer to;
\* nextID: VertexAttachment.nextID; calls: calls made so far; mlast: the last
\* call; fresh: the meshes linked by setParentMesh whose parent has not been
\* re-bound by a later setParentMesh on the parent; clones: the pairs
\* <<source, clone>> made by copy() of an attachment that is not a linked
\* mesh, neither of which has since been linked by setParentMesh.
VARIABLES meshes, heap, nextID, calls, mlast, fresh, clones

meshVars == <<meshes, heap, nextID, calls, mlast, fresh, clones>>

\* ------------------------------------------------------- setup-pose data
\* skeletonData: the lists of a SkeletonData; found: the last find call, its
\* argument and what it gave; target: PathConstraintData._target.
VARIABLES skeletonData, found, target

dataVars == <<skeletonData, found, target>>

NoAttachment == "null"
NoName == "null"
NoColor == "null"
Attachments == {"A", "B"}
Names == {"a", "b"}
Colors == {"white", "red"}
Deforms == {<<>>, <<1, 2>>}

\* SlotData blueprints: index, setup attachment name (nullable), setup colors.
SlotDatas ==
  [index : {0}, attachmentName : Names \cup {NoName},
   color : {"red"}, darkColor : {NoColor, "black"}]

\* Active skins: entries (slotIndex, name) -> attachment.
Skins ==
  { { [slotIndex |-> 0, name |-> "a", attachment |-> "A"],
      [slotIndex |-> 0, name |-> "b", attachment |-> "B"] },
    { [slotIndex |-> 0, name |-> "a", attachment |-> "A"] },
    { [slotIndex |-> 1, name |-> "a", attachment |-> "B"] } }

\* Skeleton.getAttachment(slotIndex, attachmentName): the attachment the
\* active skin holds for that slot index and name, or null.
SkeletonGetAttachment(sk, slotIndex, attachmentName) ==
  LET hits == {e \in sk : e.slotIndex = slotIndex /\ e.name = attachmentName}
  IN IF hits = {} THEN NoAttachment ELSE (CHOOSE e \in hits : TRUE).attachment

\* --------------------------------------------------------------------------
\* VertexAttachment.computeWorldVertices
\* --------------------------------------------------------------------------
NoBones == <<-1>>
NoCall == [op |-> "none", start |-> 0, count |-> 0, offset |-> 0, stride |-> 0,
           pre |-> <<>>]

\* Skeleton.bones: world transforms (a, b, c, d, worldX, worldY) of two bones.
Bones ==
  << [a |-> 2, b |-> -1, c |-> 1, d |-> 3, worldX |-> 5, worldY |-> -4],
     [a |-> 0, b |-> -1, c |-> 1, d |-> 0, worldX |-> -2, worldY |-> 7] >>

\* JavaScript arrays are indexed from 0.
At(arr, i) == arr[i + 1]
Put(arr, i, val) == IF i + 1 \in DOMAIN arr THEN [arr EXCEPT ![i + 1] = val] ELSE arr

RECURSIVE Flatten(_)
Flatten(ss) == IF ss = <<>> THEN <<>> ELSE Head(ss) \o Flatten(Tail(ss))

RECURSIVE SumSeq(_)
SumSeq(q) == IF q = <<>> THEN 0 ELSE Head(q) + SumSeq(Tail(q))

\* An unweighted attachment: bones is null, vertices are x,y pairs.
UnweightedMesh(xy) ==
  [bones |-> NoBones, vertices |-> xy, worldVerticesLength |-> Len(xy)]

\* A weighted attachment with sizes[j] bones for vertex j: bones holds, per
\* vertex, the bone count and that many bone indices; vertices holds an
\* x,y,weight triple per bone entry. Entry e gets bone index (e*bp + bq) % 2
\* and weight 1 + wp * (e % 2).
WeightedMesh(sizes, bp, bq, wp) ==
  LET first(j) == SumSeq(SubSeq(sizes, 1, j - 1))
      total == SumSeq(sizes)
  IN [bones |-> Flatten([j \in 1..Len(sizes) |->
                   <<sizes[j]>> \o [m \in 1..sizes[j] |->
                                      ((first(j) + m - 1) * bp + bq) % Len(Bones)]]),
      vertices |-> Flatten([e \in 1..total |->
                   <<e, 2 * e - 3, 1 + wp * (e % 2)>>]),
      worldVerticesLength |-> 2 * Len(sizes)]

BaseXY == Flatten([j \in 1..NumVerts |-> <<j, 2 * j - 3>>])

Meshes ==
  {UnweightedMesh(BaseXY)} \cup
  {WeightedMesh(sz, bp, bq, bp) :
     sz \in [1..NumVerts -> 1..MaxGroup], bp \in 0..1, bq \in 0..1}

\* The deform buffer a deform timeline writes for an attachment: one x,y
\* pair per vertex (unweighted) or per bone entry (weighted).
DeformFor(m) ==
  LET n == IF m.bones = NoBones THEN Len(m.vertices) \div 2 ELSE Len(m.vertices) \div 3
  IN Flatten([e \in 1..n |-> <<10 + e, -(20 + 3 * e)>>])

OutLen == MaxOffset + NumVerts * MaxStride + 2
BlankBuffer == [i \in 1..OutLen |-> -(100 + i)]

\* Unweighted loop that applies the transposed linear part (b and c swapped).
RECURSIVE UnweightedLoop_Transposed(_, _, _, _, _, _, _)
UnweightedLoop_Transposed(vertices, bone, v, w, count, stride, out) ==
  IF w < count
    THEN LET vx == At(vertices, v)
             vy == At(vertices, v + 1)
         IN UnweightedLoop_Transposed(vertices, bone, v + 2, w + stride, count, stride,
              Put(Put(out, w, vx * bone.a + vy * bone.c + bone.worldX),
                  w + 1, vx * bone.b + vy * bone.d + bone.worldY))
    ELSE out

\* for (let v = start, w = offset; w < count; v += 2, w += stride)
RECURSIVE UnweightedLoop(_, _, _, _, _, _, _)
UnweightedLoop(vertices, bone, v, w, count, stride, out) ==
  IF w < count
    THEN LET vx == At(vertices, v)
             vy == At(vertices, v + 1)
         IN UnweightedLoop(vertices, bone, v + 2, w + stride, count, stride,
              Put(Put(out, w, vx * bone.a + vy * bone.b + bone.worldX),
                  w + 1, vx * bone.c + vy * bone.d + bone.worldY))
    ELSE out

\* Skip loop that forgets to count the skipped bone entries.
RECURSIVE SkipLoop_NoSkipCount(_, _, _, _, _)
SkipLoop_NoSkipCount(bones, i, start, v, skip) ==
  IF i < start
    THEN SkipLoop_NoSkipCount(bones, i + 2, start, v + At(bones, v) + 1, skip)
    ELSE [v |-> v, skip |-> skip]

\* for (let i = 0; i < start; i += 2) { n = bones[v]; v += n + 1; skip += n }
RECURSIVE SkipLoop(_, _, _, _, _)
SkipLoop(bones, i, start, v, skip) ==
  IF i < start
    THEN LET n == At(bones, v)
         IN SkipLoop(bones, i + 2, start, v + n + 1, skip + n)
    ELSE [v |-> v, skip |-> skip]

\* Inner loop that leaves out the bone's world translation.
RECURSIVE BoneLoop_NoTranslation(_, _, _, _, _, _, _, _)
BoneLoop_NoTranslation(bones, vertices, skBones, v, n, b, wx, wy) ==
  IF v < n
    THEN LET bone == skBones[At(bones, v) + 1]
             vx == At(vertices, b)
             vy == At(vertices, b + 1)
             weight == At(vertices, b + 2)
         IN BoneLoop_NoTranslation(bones, vertices, skBones, v + 1, n, b + 3,
              wx + (vx * bone.a + vy * bone.b) * weight,
              wy + (vx * bone.c + vy * bone.d) * weight)
    ELSE [v |-> v, b |-> b, wx |-> wx, wy |-> wy]

\* for (; v < n; v++, b += 3): the bones of one vertex, no deform.
RECURSIVE BoneLoop(_, _, _, _, _, _, _, _)
BoneLoop(bones, vertices, skBones, v, n, b, wx, wy) ==
  IF v < n
    THEN LET bone == skBones[At(bones, v) + 1]
             vx == At(vertices, b)
             vy == At(vertices, b + 1)
             weight == At(vertices, b + 2)
         IN BoneLoop(bones, vertices, skBones, v + 1, n, b + 3,
              wx + (vx * bone.a + vy * bone.b + bone.worldX) * weight,
              wy + (vx * bone.c + vy * bone.d + bone.worldY) * weight)
    ELSE [v |-> v, b |-> b, wx |-> wx, wy |-> wy]

\* for (let w = offset, b = skip * 3; w < count; w += stride), no deform.
RECURSIVE WeightedLoop(_, _, _, _, _, _, _, _, _)
WeightedLoop(bones, vertices, skBones, v, b, w, count, stride, out) ==
  IF w < count
    THEN LET n == At(bones, v)
             r == BoneLoop(bones, vertices, skBones, v + 1, n + v + 1, b, 0, 0)
         IN WeightedLoop(bones, vertices, skBones, r.v, r.b, w + stride, count, stride,
              Put(Put(out, w, r.wx), w + 1, r.wy))
    ELSE out

\* for (; v < n; v++, b += 3, f += 2): the bones of one vertex, with deform.
RECURSIVE BoneDeformLoop(_, _, _, _, _, _, _, _, _, _)
BoneDeformLoop(bones, vertices, deform, skBones, v, n, b, f, wx, wy) ==
  IF v < n
    THEN LET bone == skBones[At(bones, v) + 1]
             vx == At(vertices, b) + At(deform, f)
             vy == At(vertices, b + 1) + At(deform, f + 1)
             weight == At(vertices, b + 2)
         IN BoneDeformLoop(bones, vertices, deform, skBones, v + 1, n, b + 3, f + 2,
              wx + (vx * bone.a + vy * bone.b + bone.worldX) * weight,
              wy + (vx * bone.c + vy * bone.d + bone.worldY) * weight)
    ELSE [v |-> v, b |-> b, f |-> f, wx |-> wx, wy |-> wy]

\* for (let w = offset, b = skip * 3, f = skip << 1; w < count; w += stride)
RECURSIVE WeightedDeformLoop(_, _, _, _, _, _, _, _, _, _, _)
WeightedDeformLoop(bones, vertices, deform, skBones, v, b, f, w, count, stride, out) ==
  IF w < count
    THEN LET n == At(bones, v)
             r == BoneDeformLoop(bones, vertices, deform, skBones,
                                 v + 1, n + v + 1, b, f, 0, 0)
         IN WeightedDeformLoop(bones, vertices, deform, skBones, r.v, r.b, r.f,
              w + stride, count, stride, Put(Put(out, w, r.wx), w + 1, r.wy))
    ELSE out

\* VertexAttachment.computeWorldVertices(slot, start, count, worldVertices,
\* offset, stride): the output buffer after the call.
computeWorldVertices(att, s, skBones, start, count, out, offset, stride) ==
  LET cnt == offset + (count \div 2) * stride
      deformArray == s.deform
  IN IF att.bones = NoBones
       THEN UnweightedLoop(IF Len(deformArray) > 0 THEN deformArray ELSE att.vertices,
                           skBones[s.bone], start, offset, cnt, stride, out)
       ELSE LET k == SkipLoop(att.bones, 0, start, 0, 0)
            IN IF Len(deformArray) = 0
                 THEN WeightedLoop(att.bones, att.vertices, skBones,
                                   k.v, k.skip * 3, offset, cnt, stride, out)
                 ELSE WeightedDeformLoop(att.bones, att.vertices, deformArray, skBones,
                                         k.v, k.skip * 3, k.skip * 2, offset, cnt,
                                         stride, out)

\* --------------------------------------------------------------------------
\* MeshAttachment: meshes hold references into a heap of arrays, so that a
\* shared array (alias) and an equal copy are different things.
\* --------------------------------------------------------------------------
NoMesh == 0
NoBuf == 0
NoRegion == 0
NoSlot == 0
IdMask == 65535
BufFields == {"bones", "vertices", "regionUVs", "uvs", "triangles", "edges"}

\* Color objects are arrays (r, g, b, a) in units of 1/10000; an attachment
\* makes its own in its field initialiser and setFromColor writes into it.
White == <<10000, 10000, 10000, 10000>>
Red == <<10000, 0, 0, 10000>>
ClippingColor == <<2275, 2275, 8078, 10000>>

\* Texture regions: a plain TextureRegion and TextureAtlasRegions packed at
\* 0, 90, 180 and 270 degrees. The values make every division exact.
AtlasRegion(deg) ==
  [atlas |-> TRUE, degrees |-> deg, u |-> 40, v |-> 60, u2 |-> 48, v2 |-> 64,
   offsetX |-> 4, offsetY |-> 8, width |-> 8, height |-> 12,
   originalWidth |-> 16, originalHeight |-> 24,
   textureWidth |-> 2, textureHeight |-> 4]
Regions ==
  << [AtlasRegion(0) EXCEPT !.atlas = FALSE],
     AtlasRegion(0), AtlasRegion(90), AtlasRegion(180), AtlasRegion(270) >>

\* The uv pair with the 90 degree case lacking the flip of ru.
RegionUV_NoFlip(r, ru, rv) ==
  IF r.atlas
    THEN CASE r.degrees = 90 ->
                LET u == r.u - (r.originalHeight - r.offsetY - r.height) \div r.textureWidth
                    v == r.v - (r.originalWidth - r.offsetX - r.width) \div r.textureHeight
                    width == r.originalHeight \div r.textureWidth
                    height == r.originalWidth \div r.textureHeight
                IN <<u + rv * width, v + ru * height>>
           [] r.degrees = 180 ->
                LET u == r.u - (r.originalWidth - r.offsetX - r.width) \div r.textureWidth
                    v == r.v - r.offsetY \div r.textureHeight
                    width == r.originalWidth \div r.textureWidth
                    height == r.originalHeight \div r.textureHeight
                IN <<u + (1 - ru) * width, v + (1 - rv) * height>>
           [] r.degrees = 270 ->
                LET u == r.u - r.offsetY \div r.textureWidth
                    v == r.v - r.offsetX \div r.textureHeight
                    width == r.originalHeight \div r.textureWidth
                    height == r.originalWidth \div r.textureHeight
                IN <<u + (1 - rv) * width, v + ru * height>>
           [] OTHER ->
                LET u == r.u - r.offsetX \div r.textureWidth
                    v == r.v - (r.originalHeight - r.offsetY - r.height) \div r.textureHeight
                    width == r.originalWidth \div r.textureWidth
                    height == r.originalHeight \div r.textureHeight
                IN <<u + ru * width, v + rv * height>>
    ELSE <<r.u + ru * (r.u2 - r.u), r.v + rv * (r.v2 - r.v)>>

\* The uv pair updateUVs computes for the region-relative pair (ru, rv).
RegionUV(r, ru, rv) ==
  IF r.atlas
    THEN CASE r.degrees = 90 ->
                LET u == r.u - (r.originalHeight - r.offsetY - r.height) \div r.textureWidth
                    v == r.v - (r.originalWidth - r.offsetX - r.width) \div r.textureHeight
                    width == r.originalHeight \div r.textureWidth
                    height == r.originalWidth \div r.textureHeight
                IN <<u + rv * width, v + (1 - ru) * height>>
           [] r.degrees = 180 ->
                LET u == r.u - (r.originalWidth - r.offsetX - r.width) \div r.textureWidth
                    v == r.v - r.offsetY \div r.textureHeight
                    width == r.originalWidth \div r.textureWidth
                    height == r.originalHeight \div r.textureHeight
                IN <<u + (1 - ru) * width, v + (1 - rv) * height>>
           [] r.degrees = 270 ->
                LET u == r.u - r.offsetY \div r.textureWidth
                    v == r.v - r.offsetX \div r.textureHeight
                    width == r.originalHeight \div r.textureWidth
                    height == r.originalWidth \div r.textureHeight
                IN <<u + (1 - rv) * width, v + ru * height>>
           [] OTHER ->
                LET u == r.u - r.offsetX \div r.textureWidth
                    v == r.v - (r.originalHeight - r.offsetY - r.height) \div r.textureHeight
                    width == r.originalWidth \div r.textureWidth
                    height == r.originalHeight \div r.textureHeight
                IN <<u + ru * width, v + rv * height>>
    ELSE <<r.u + ru * (r.u2 - r.u), r.v + rv * (r.v2 - r.v)>>

\* new MeshAttachment(name, path): field initialisers of Attachment,
\* VertexAttachment and MeshAttachment; the new mesh is the last of H.meshes.
\* H.meshes holds every attachment made so far, of whatever class (kind).
newMeshAttachment(H, name, path) ==
  LET n == Len(H.heap)
      self == Len(H.meshes) + 1
  IN [H EXCEPT
        !.nextID = @ + 1,
        !.heap = @ \o << <<>>, <<>>, <<>>, <<>>, <<>>, White >>,
        !.meshes = Append(@,
          [kind |-> "mesh", name |-> name, path |-> path,
           id |-> (H.nextID % (IdMask + 1)) * 2048,
           bones |-> NoBuf, vertices |-> n + 1, worldVerticesLength |-> 0,
           deformAttachment |-> self,
           region |-> NoRegion, regionUVs |-> n + 2, uvs |-> n + 3,
           triangles |-> n + 4, color |-> n + 6,
           width |-> 0, height |-> 0, hullLength |-> 0, edges |-> n + 5,
           parentMesh |-> NoMesh])]

\* setParentMesh that copies the parent's vertices instead of sharing them.
setParentMesh_CopyVertices(H, l, parentMesh) ==
  IF parentMesh = NoMesh
    THEN [H EXCEPT !.meshes[l].parentMesh = parentMesh]
    ELSE LET p == H.meshes[parentMesh]
         IN [H EXCEPT !.heap = Append(@, H.heap[p.vertices]),
                      !.meshes[l] = [@ EXCEPT
                          !.parentMesh = parentMesh,
                          !.bones = p.bones,
                          !.vertices = Len(H.heap) + 1,
                          !.worldVerticesLength = p.worldVerticesLength,
                          !.regionUVs = p.regionUVs,
                          !.triangles = p.triangles,
                          !.hullLength = p.hullLength]]

\* MeshAttachment.setParentMesh
setParentMesh(H, l, parentMesh) ==
  IF parentMesh = NoMesh
    THEN [H EXCEPT !.meshes[l].parentMesh = parentMesh]
    ELSE LET p == H.meshes[parentMesh]
         IN [H EXCEPT !.meshes[l] = [@ EXCEPT
                          !.parentMesh = parentMesh,
                          !.bones = p.bones,
                          !.vertices = p.vertices,
                          !.worldVerticesLength = p.worldVerticesLength,
                          !.regionUVs = p.regionUVs,
                          !.triangles = p.triangles,
                          !.hullLength = p.hullLength]]

\* updateUVs that takes the new uvs array before it looks at the region.
updateUVs_AllocatesFirst(H, m) ==
  LET me == H.meshes[m]
      regionUVs == H.heap[me.regionUVs]
      n == Len(regionUVs)
      H1 == [H EXCEPT !.heap = Append(@, [i \in 1..n |-> 0]),
                      !.meshes[m].uvs = Len(H.heap) + 1]
      uvs == [i \in 1..n |->
                IF i % 2 = 1
                  THEN RegionUV(Regions[me.region], regionUVs[i], regionUVs[i + 1])[1]
                  ELSE RegionUV(Regions[me.region], regionUVs[i - 1], regionUVs[i])[2]]
  IN IF me.region = NoRegion
       THEN [H |-> H1, error |-> TRUE]
       ELSE [H |-> [H1 EXCEPT !.heap[H1.meshes[m].uvs] = uvs], error |-> FALSE]

\* MeshAttachment.updateUVs: throws when the region is not set; otherwise
\* takes a new uvs array when the length differs and fills it.
updateUVs(H, m) ==
  LET me == H.meshes[m]
      regionUVs == H.heap[me.regionUVs]
      n == Len(regionUVs)
      realloc == Len(H.heap[me.uvs]) # n
      ref == IF realloc THEN Len(H.heap) + 1 ELSE me.uvs
      r == Regions[me.region]
      uvs == [i \in 1..n |->
                IF i % 2 = 1
                  THEN RegionUV(r, regionUVs[i], regionUVs[i + 1])[1]
                  ELSE RegionUV(r, regionUVs[i - 1], regionUVs[i])[2]]
  IN IF me.region = NoRegion
       THEN [H |-> H, error |-> TRUE]
       ELSE [H |-> [H EXCEPT
                      !.heap = IF realloc THEN Append(@, uvs)
                               ELSE [@ EXCEPT ![ref] = uvs],
                      !.meshes[m].uvs = ref],
             error |-> FALSE]

\* newLinkedMesh that always links to the mesh it is called on.
newLinkedMesh_ParentIsThis(H, m) ==
  LET me == H.meshes[m]
      H1 == newMeshAttachment(H, me.name, me.path)
      c == Len(H1.meshes)
      H2 == [H1 EXCEPT !.meshes[c].region = me.region,
                       !.heap[H1.meshes[c].color] = H.heap[me.color],
                       !.meshes[c].deformAttachment = me.deformAttachment]
      H3 == setParentMesh(H2, c, m)
      r == updateUVs(H3, c)
  IN IF r.error
       THEN [H |-> [H EXCEPT !.nextID = H1.nextID], error |-> TRUE, ret |-> NoMesh]
       ELSE [H |-> r.H, error |-> FALSE, ret |-> c]

\* MeshAttachment.newLinkedMesh: a mesh built and then lost to the exception
\* of updateUVs leaves only the advanced id counter behind. The arrays the
\* constructor made and the call replaced stay in the heap, unreferenced.
newLinkedMesh(H, m) ==
  LET me == H.meshes[m]
      H1 == newMeshAttachment(H, me.name, me.path)
      c == Len(H1.meshes)
      H2 == [H1 EXCEPT !.meshes[c].region = me.region,
                       !.heap[H1.meshes[c].color] = H.heap[me.color],
                       !.meshes[c].deformAttachment = me.deformAttachment]
      H3 == setParentMesh(H2, c, IF me.parentMesh # NoMesh THEN me.parentMesh ELSE m)
      r == updateUVs(H3, c)
  IN IF r.error
       THEN [H |-> [H EXCEPT !.nextID = H1.nextID], error |-> TRUE, ret |-> NoMesh]
       ELSE [H |-> r.H, error |-> FALSE, ret |-> c]

\* copyTo that hands the vertices array itself to the other attachment.
copyTo_ShareVertices(H, m, c) ==
  LET me == H.meshes[m]
      H1 == IF me.bones # NoBuf
              THEN [H EXCEPT !.heap = Append(@, H.heap[me.bones]),
                             !.meshes[c].bones = Len(H.heap) + 1]
              ELSE [H EXCEPT !.meshes[c].bones = NoBuf]
  IN [H1 EXCEPT !.meshes[c].vertices = me.vertices,
                !.meshes[c].worldVerticesLength = me.worldVerticesLength,
                !.meshes[c].deformAttachment = me.deformAttachment]

\* VertexAttachment.copyTo: attachment c gets copies of the bones and
\* vertices arrays of m.
copyTo(H, m, c) ==
  LET me == H.meshes[m]
      H1 == IF me.bones # NoBuf
              THEN [H EXCEPT !.heap = Append(@, H.heap[me.bones]),
                             !.meshes[c].bones = Len(H.heap) + 1]
              ELSE [H EXCEPT !.meshes[c].bones = NoBuf]
  IN [H1 EXCEPT !.heap = Append(@, H.heap[me.vertices]),
                !.meshes[c].vertices = Len(H1.heap) + 1,
                !.meshes[c].worldVerticesLength = me.worldVerticesLength,
                !.meshes[c].deformAttachment = me.deformAttachment]

\* new Array(length) followed by Utils.arrayCopy, assigned to field f of c.
CopyArray(H, m, c, f) ==
  [H EXCEPT !.heap = Append(@, H.heap[H.meshes[m][f]]),
            !.meshes[c][f] = Len(H.heap) + 1]

\* MeshAttachment.copy
copy(H, m) ==
  LET me == H.meshes[m]
      H1 == newMeshAttachment(H, me.name, me.path)
      c == Len(H1.meshes)
      H2 == [H1 EXCEPT !.meshes[c].region = me.region,
                       !.heap[H1.meshes[c].color] = H.heap[me.color]]
      H3 == copyTo(H2, m, c)
      H4 == CopyArray(CopyArray(CopyArray(H3, m, c, "regionUVs"), m, c, "uvs"),
                      m, c, "triangles")
      H5 == [H4 EXCEPT !.meshes[c].hullLength = me.hullLength]
      H6 == CopyArray(H5, m, c, "edges")
      H7 == [H6 EXCEPT !.meshes[c].width = me.width,
                       !.meshes[c].height = me.height]
  IN IF me.parentMesh # NoMesh
       THEN newLinkedMesh(H, m)
       ELSE [H |-> H7, error |-> FALSE, ret |-> c]

\* new BoundingBoxAttachment(name): field initialisers of Attachment,
\* VertexAttachment and BoundingBoxAttachment.
newBoundingBoxAttachment(H, name) ==
  LET n == Len(H.heap)
      self == Len(H.meshes) + 1
  IN [H EXCEPT
        !.nextID = @ + 1,
        !.heap = @ \o << <<>>, White >>,
        !.meshes = Append(@,
          [kind |-> "boundingbox", name |-> name,
           id |-> (H.nextID % (IdMask + 1)) * 2048,
           bones |-> NoBuf, vertices |-> n + 1, worldVerticesLength |-> 0,
           deformAttachment |-> self, color |-> n + 2])]

\* new ClippingAttachment(name)
newClippingAttachment(H, name) ==
  LET n == Len(H.heap)
      self == Len(H.meshes) + 1
  IN [H EXCEPT
        !.nextID = @ + 1,
        !.heap = @ \o << <<>>, ClippingColor >>,
        !.meshes = Append(@,
          [kind |-> "clipping", name |-> name,
           id |-> (H.nextID % (IdMask + 1)) * 2048,
           bones |-> NoBuf, vertices |-> n + 1, worldVerticesLength |-> 0,
           deformAttachment |-> self, endSlot |-> NoSlot, color |-> n + 2])]

\* BoundingBoxAttachment.copy
BoundingBoxAttachment_copy(H, m) ==
  LET me == H.meshes[m]
      H1 == newBoundingBoxAttachment(H, me.name)
      c == Len(H1.meshes)
      H2 == copyTo(H1, m, c)
  IN [H |-> [H2 EXCEPT !.heap[H2.meshes[c].color] = H.heap[me.color]],
      error |-> FALSE, ret |-> c]

\* ClippingAttachment.copy
ClippingAttachment_copy(H, m) ==
  LET me == H.meshes[m]
      H1 == newClippingAttachment(H, me.name)
      c == Len(H1.meshes)
      H2 == copyTo(H1, m, c)
  IN [H |-> [H2 EXCEPT !.meshes[c].endSlot = me.endSlot,
                       !.heap[H2.meshes[c].color] = H.heap[me.color]],
      error |-> FALSE, ret |-> c]

\* attachment.copy(): the call goes to the class of the attachment.
Attachment_copy(H, m) ==
  CASE H.meshes[m].kind = "mesh" -> copy(H, m)
    [] H.meshes[m].kind = "boundingbox" -> BoundingBoxAttachment_copy(H, m)
    [] H.meshes[m].kind = "clipping" -> ClippingAttachment_copy(H, m)

\* --------------------------------------------------------------------------
\* SkeletonData: eight ordered lists of named objects and the find methods.
\* An object is a record of its name and of the identity (uid) that tells it
\* from another object of the same name.
\* --------------------------------------------------------------------------
Undefined == "undefined"
NoObject == [name |-> NoName, uid |-> 0]
NoIndex == -1
ListNames == {"a", "b"}
LookupNames == ListNames \cup {"c", ""}

\* The objects a loader makes from a list of names, in list order.
Objects(names, base) == [i \in 1..Len(names) |-> [name |-> names[i], uid |-> base + i]]

RECURSIVE Reverse(_)
Reverse(q) == IF q = <<>> THEN <<>> ELSE Append(Reverse(Tail(q)), Head(q))

\* Scan that keeps going after a match, so that the last match wins.
RECURSIVE Scan_LastMatch(_, _, _, _)
Scan_LastMatch(list, i, n, name) ==
  IF i < n
    THEN LET rest == Scan_LastMatch(list, i + 1, n, name)
         IN IF rest # NoIndex THEN rest
            ELSE IF At(list, i).name = name THEN i ELSE NoIndex
    ELSE NoIndex

\* for (let i = 0, n = list.length; i < n; i++) if (list[i].name == name) return i
RECURSIVE Scan(_, _, _, _)
Scan(list, i, n, name) ==
  IF i < n
    THEN IF At(list, i).name = name THEN i ELSE Scan(list, i + 1, n, name)
    ELSE NoIndex

\* The outcome of a find method: an exception, or the value returned.
Thrown == [error |-> TRUE, value |-> NoObject]
Value(v) == [error |-> FALSE, value |-> v]
ObjectAt(list, i) == IF i = NoIndex THEN NoObject ELSE At(list, i)

\* name == null holds for null and for undefined.
IsNull(name) == name \in {NoName, Undefined}

findBone(sd, boneName) ==
  IF IsNull(boneName) THEN Thrown
  ELSE Value(ObjectAt(sd.bones, Scan(sd.bones, 0, Len(sd.bones), boneName)))

findBoneIndex(sd, boneName) ==
  IF IsNull(boneName) THEN Thrown
  ELSE Value(Scan(sd.bones, 0, Len(sd.bones), boneName))

findSlot(sd, slotName) ==
  IF IsNull(slotName) THEN Thrown
  ELSE Value(ObjectAt(sd.slots, Scan(sd.slots, 0, Len(sd.slots), slotName)))

findSlotIndex(sd, slotName) ==
  IF IsNull(slotName) THEN Thrown
  ELSE Value(Scan(sd.slots, 0, Len(sd.slots), slotName))

findSkin(sd, skinName) ==
  IF IsNull(skinName) THEN Thrown
  ELSE Value(ObjectAt(sd.skins, Scan(sd.skins, 0, Len(sd.skins), skinName)))

findEvent(sd, eventDataName) ==
  IF IsNull(eventDataName) THEN Thrown
  ELSE Value(ObjectAt(sd.events, Scan(sd.events, 0, Len(sd.events), eventDataName)))

findAnimation(sd, animationName) ==
  IF IsNull(animationName) THEN Thrown
  ELSE Value(ObjectAt(sd.animations,
                      Scan(sd.animations, 0, Len(sd.animations), animationName)))

findIkConstraint(sd, constraintName) ==
  IF IsNull(constraintName) THEN Thrown
  ELSE Value(ObjectAt(sd.ikConstraints,
                      Scan(sd.ikConstraints, 0, Len(sd.ikConstraints), constraintName)))

findTransformConstraint(sd, constraintName) ==
  IF IsNull(constraintName) THEN Thrown
  ELSE Value(ObjectAt(sd.transformConstraints,
                      Scan(sd.transformConstraints, 0, Len(sd.transformConstraints),
                           constraintName)))

findPathConstraint(sd, constraintName) ==
  IF IsNull(constraintName) THEN Thrown
  ELSE Value(ObjectAt(sd.pathConstraints,
                      Scan(sd.pathConstraints, 0, Len(sd.pathConstraints), constraintName)))

findPathConstraintIndex(sd, pathConstraintName) ==
  IF IsNull(pathConstraintName) THEN Thrown
  ELSE Value(Scan(sd.pathConstraints, 0, Len(sd.pathConstraints), pathConstraintName))

\* The find methods by name, with the list each one reads.
Finders == {"findBone", "findBoneIndex", "findSlot", "findSlotIndex", "findSkin", "findEvent", "findAnimation", "findIkConstraint", "findTransformConstraint", "findPathConstraint", "findPathConstraintIndex"}
IndexFinders == {"findBoneIndex", "findSlotIndex", "findPathConstraintIndex"}

Call(method, sd, name) ==
  CASE method = "findBone" -> findBone(sd, name)
    [] method = "findBoneIndex" -> findBoneIndex(sd, name)
    [] method = "findSlot" -> findSlot(sd, name)
    [] method = "findSlotIndex" -> findSlotIndex(sd, name)
    [] method = "findSkin" -> findSkin(sd, name)
    [] method = "findEvent" -> findEvent(sd, name)
    [] method = "findAnimation" -> findAnimation(sd, name)
    [] method = "findIkConstraint" -> findIkConstraint(sd, name)
    [] method = "findTransformConstraint" -> findTransformConstraint(sd, name)
    [] method = "findPathConstraint" -> findPathConstraint(sd, name)
    [] method = "findPathConstraintIndex" -> findPathConstraintIndex(sd, name)

\* PathConstraintData: set target(slotData) and get target().
setTarget(t, slotData) == slotData
getTarget(t) == IF t = NoSlot THEN [error |-> TRUE, value |-> NoSlot] ELSE Value(t)

\* The data while no lookup is exercised.
NoFind == [method |-> "none", name |-> NoName, result |-> Thrown, pre |-> <<>>]
DataIdle ==
  /\ skeletonData = <<>>
  /\ found = NoFind
  /\ target = NoSlot

\* --------------------------------------------------------------------------
\* Slot
\* --------------------------------------------------------------------------
\* Slot.setAttachment without the identity short-circuit.
setAttachment_AlwaysReset(s, attachment, skeletonTime) ==
  [s EXCEPT !.attachment = attachment,
            !.attachmentTime = skeletonTime,
            !.deform = <<>>]

\* Slot.setAttachment that stamps the change with time zero.
setAttachment_StampZero(s, attachment, skeletonTime) ==
  IF s.attachment = attachment
    THEN s
    ELSE [s EXCEPT !.attachment = attachment,
                   !.attachmentTime = 0,
                   !.deform = <<>>]

\* Slot.setAttachment
setAttachment(s, attachment, skeletonTime) ==
  IF s.attachment = attachment
    THEN s
    ELSE [s EXCEPT !.attachment = attachment,
                   !.attachmentTime = skeletonTime,
                   !.deform = <<>>]

\* Slot.setAttachmentTime
setAttachmentTime(s, t, skeletonTime) ==
  [s EXCEPT !.attachmentTime = skeletonTime - t]

\* Slot.getAttachmentTime
getAttachmentTime(s, skeletonTime) == skeletonTime - s.attachmentTime

\* Slot.setToSetupPose
setToSetupPose(s, d, sk, skeletonTime) ==
  LET s1 == [s EXCEPT !.color = d.color,
                      !.darkColor = IF s.darkColor # NoColor
                                      THEN d.darkColor ELSE s.darkColor]
  IN IF d.attachmentName = NoName
       THEN [s1 EXCEPT !.attachment = NoAttachment]
       ELSE setAttachment([s1 EXCEPT !.attachment = NoAttachment],
                          SkeletonGetAttachment(sk, d.index, d.attachmentName),
                          skeletonTime)

\* Slot constructor: field initialisers, then setToSetupPose().
NewSlot(d, b, sk, skeletonTime) ==
  setToSetupPose([bone |-> b,
                  attachment |-> NoAttachment,
                  attachmentTime |-> 0,
                  deform |-> <<>>,
                  color |-> "white",
                  darkColor |-> IF d.darkColor = NoColor THEN NoColor ELSE "white"],
                 d, sk, skeletonTime)

\* History of the last operation: its name, its arguments, the slot and the
\* clock before it.
Op(name, att, t, pre) ==
  [op |-> name, attachment |-> att, arg |-> t, pre |-> pre, preTime |-> time]


\* The mesh heap while no mesh attachment is exercised.
NoMeshOp == [op |-> "none", target |-> 0, arg |-> 0, field |-> "none",
             error |-> FALSE, ret |-> 0]
MeshIdle ==
  /\ meshes = <<>>
  /\ heap = <<>>
  /\ nextID = 0
  /\ calls = 0
  /\ mlast = NoMeshOp
  /\ fresh = {}
  /\ clones = {}

\* The skinning state while only the slot is exercised.
SkinIdle ==
  /\ skeletonBones = Bones
  /\ mesh = UnweightedMesh(BaseXY)
  /\ worldVertices = BlankBuffer
  /\ call = NoCall

SlotInit ==
  /\ SkinIdle
  /\ MeshIdle
  /\ DataIdle
  /\ time = 0
  /\ data \in SlotDatas
  /\ skin \in Skins
  /\ slot = NewSlot(data, 1, skin, 0)
  /\ last = [op |-> "new", attachment |-> NoAttachment, arg |-> 0,
             pre |-> slot, preTime |-> 0]
  /\ changedAt = 0

\* The skeleton time at which the slot's attachment last changed identity.
Track(s2) == IF s2.attachment # slot.attachment THEN time ELSE changedAt

SetAttachment(x) ==
  /\ slot' = setAttachment(slot, x, time)
  /\ last' = Op("setAttachment", x, 0, slot)
  /\ changedAt' = Track(slot')
  /\ UNCHANGED <<time, data, skin, skinVars, meshVars, dataVars>>

SetAttachmentTime(t) ==
  /\ slot' = setAttachmentTime(slot, t, time)
  /\ last' = Op("setAttachmentTime", NoAttachment, t, slot)
  /\ changedAt' = Track(slot')
  /\ UNCHANGED <<time, data, skin, skinVars, meshVars, dataVars>>

SetToSetupPose ==
  /\ slot' = setToSetupPose(slot, data, skin, time)
  /\ last' = Op("setToSetupPose", NoAttachment, 0, slot)
  /\ changedAt' = Track(slot')
  /\ UNCHANGED <<time, data, skin, skinVars, meshVars, dataVars>>

\* A deform timeline writes the slot's deform buffer.
WriteDeform(d) ==
  /\ slot.deform # d
  /\ slot' = [slot EXCEPT !.deform = d]
  /\ last' = Op("writeDeform", NoAttachment, 0, slot)
  /\ changedAt' = Track(slot')
  /\ UNCHANGED <<time, data, skin, skinVars, meshVars, dataVars>>

\* A color timeline tints the slot.
WriteColor(c) ==
  /\ slot.color # c
  /\ slot' = [slot EXCEPT !.color = c]
  /\ last' = Op("writeColor", NoAttachment, 0, slot)
  /\ changedAt' = Track(slot')
  /\ UNCHANGED <<time, data, skin, skinVars, meshVars, dataVars>>

\* Skeleton.update(delta): the owner advances the clock.
Update(delta) ==
  /\ time + delta <= MaxTime
  /\ time' = time + delta
  /\ last' = Op("update", NoAttachment, delta, slot)
  /\ UNCHANGED <<slot, data, skin, changedAt, skinVars, meshVars, dataVars>>

SlotNext ==
  \/ \E x \in Attachments \cup {NoAttachment} : SetAttachment(x)
  \/ \E t \in -1..MaxTime : SetAttachmentTime(t)
  \/ SetToSetupPose
  \/ \E d \in Deforms : WriteDeform(d)
  \/ \E c \in Colors : WriteColor(c)
  \/ \E delta \in 1..MaxDelta : Update(delta)

vars == <<time, slot, data, skin, last, changedAt,
          skeletonBones, mesh, worldVertices, call,
          meshes, heap, nextID, calls, mlast, fresh, clones,
          skeletonData, found, target>>

Spec == SlotInit /\ [][SlotNext]_vars

\* --------------------------------------------------------------------------
\* Skinning: a slot on one bone of the skeleton, a vertex attachment, and a
\* caller that asks for world vertices into a fresh output buffer.
\* --------------------------------------------------------------------------
SlotIdle ==
  /\ time = 0
  /\ data = [index |-> 0, attachmentName |-> NoName, color |-> "red",
             darkColor |-> NoColor]
  /\ skin = {}
  /\ changedAt = 0

SkinInit ==
  /\ SlotIdle
  /\ MeshIdle
  /\ DataIdle
  /\ skeletonBones = Bones
  /\ mesh \in Meshes
  /\ \E b \in 1..Len(Bones) : slot = NewSlot(data, b, skin, 0)
  /\ last = [op |-> "new", attachment |-> NoAttachment, arg |-> 0,
             pre |-> slot, preTime |-> 0]
  /\ worldVertices = BlankBuffer
  /\ call = NoCall

ComputeWorldVertices(start, count, offset, stride) ==
  /\ call.op = "none"
  /\ start % 2 = 0 /\ count % 2 = 0
  /\ start + count <= mesh.worldVerticesLength
  /\ worldVertices' = computeWorldVertices(mesh, slot, skeletonBones, start, count,
                                           worldVertices, offset, stride)
  /\ call' = [op |-> "compute", start |-> start, count |-> count,
              offset |-> offset, stride |-> stride, pre |-> worldVertices]
  /\ UNCHANGED <<time, slot, data, skin, last, changedAt, skeletonBones, mesh, meshVars, dataVars>>

\* A deform timeline fills the slot's deform buffer for the attachment.
ApplyDeform ==
  /\ call.op = "none"
  /\ slot.deform = <<>>
  /\ slot' = [slot EXCEPT !.deform = DeformFor(mesh)]
  /\ UNCHANGED <<time, data, skin, last, changedAt, skinVars, meshVars, dataVars>>

\* The deform buffer is emptied (deform.length = 0).
ClearDeform ==
  /\ call.op = "none"
  /\ slot.deform # <<>>
  /\ slot' = [slot EXCEPT !.deform = <<>>]
  /\ UNCHANGED <<time, data, skin, last, changedAt, skinVars, meshVars, dataVars>>

\* The caller takes a fresh output buffer for the next call.
NewBuffer ==
  /\ call.op = "compute"
  /\ worldVertices' = BlankBuffer
  /\ call' = NoCall
  /\ UNCHANGED <<time, slot, data, skin, last, changedAt, skeletonBones, mesh, meshVars, dataVars>>

SkinNext ==
  \/ \E start \in 0..(2 * NumVerts), count \in 0..(2 * NumVerts),
        offset \in 0..MaxOffset, stride \in 2..MaxStride :
       ComputeWorldVertices(start, count, offset, stride)
  \/ ApplyDeform
  \/ ClearDeform
  \/ NewBuffer

SpecSkin == SkinInit /\ [][SkinNext]_vars

\* ---------------------------------------------------------- skinning claims
\* The pairs a call asks for, and the buffer position of pair k.
Pairs == 0..((call.count \div 2) - 1)
PairAt(i) == {k \in Pairs : i = call.offset + k * call.stride}
PairAfter(i) == {k \in Pairs : i = call.offset + k * call.stride + 1}
TheOne(S) == CHOOSE k \in S : TRUE

\* C5: on an unweighted attachment computeWorldVertices writes exactly
\* count/2 pairs, pair k at offset + k*stride and offset + k*stride + 1, with
\* values (vx*a + vy*b + worldX, vx*c + vy*d + worldY) of the slot's bone,
\* (vx, vy) read at start + 2k from the slot's deform buffer if it is not
\* empty and from the attachment's vertices otherwise; every other entry of
\* the output buffer keeps its value.
C5_Unweighted ==
  (call.op = "compute" /\ mesh.bones = NoBones) =>
    LET src == IF slot.deform # <<>> THEN slot.deform ELSE mesh.vertices
        bone == skeletonBones[slot.bone]
        vx(k) == src[call.start + 2 * k + 1]
        vy(k) == src[call.start + 2 * k + 2]
    IN \A i \in 0..(OutLen - 1) :
         worldVertices[i + 1] =
           IF PairAt(i) # {}
             THEN LET k == TheOne(PairAt(i))
                  IN vx(k) * bone.a + vy(k) * bone.b + bone.worldX
           ELSE IF PairAfter(i) # {}
             THEN LET k == TheOne(PairAfter(i))
                  IN vx(k) * bone.c + vy(k) * bone.d + bone.worldY
           ELSE call.pre[i + 1]

\* An unweighted attachment was transformed from a filled deform buffer, from
\* a start past the first vertex, with a stride that leaves gaps.
C5_Witness ==
  /\ call.op = "compute" /\ mesh.bones = NoBones
  /\ slot.deform # <<>>
  /\ call.start = 2 /\ call.count = 4 /\ call.stride = 3 /\ call.offset = 1
  /\ worldVertices[call.offset + 1] # call.pre[call.offset + 1]
  /\ worldVertices[call.offset + 3] = call.pre[call.offset + 3]

\* Layout of a weighted attachment, read from its bones array: the number of
\* bones of vertex j, the index of its group and of its first entry.
RECURSIVE GroupIndex(_, _)
GroupIndex(bones, j) ==
  IF j = 0 THEN 0 ELSE GroupIndex(bones, j - 1) + bones[GroupIndex(bones, j - 1) + 1] + 1
GroupSize(bones, j) == bones[GroupIndex(bones, j) + 1]
RECURSIVE FirstEntry(_, _)
FirstEntry(bones, j) ==
  IF j = 0 THEN 0 ELSE FirstEntry(bones, j - 1) + GroupSize(bones, j - 1)

\* The weighted sum for vertex j, over the entries m..GroupSize-1 of its group.
RECURSIVE SkinX(_, _), SkinY(_, _)
SkinX(j, m) ==
  IF m >= GroupSize(mesh.bones, j) THEN 0
  ELSE LET e == FirstEntry(mesh.bones, j) + m
           bone == skeletonBones[mesh.bones[GroupIndex(mesh.bones, j) + m + 2] + 1]
           dx == IF slot.deform = <<>> THEN 0 ELSE slot.deform[2 * e + 1]
           dy == IF slot.deform = <<>> THEN 0 ELSE slot.deform[2 * e + 2]
           x == mesh.vertices[3 * e + 1] + dx
           y == mesh.vertices[3 * e + 2] + dy
       IN mesh.vertices[3 * e + 3] * (bone.a * x + bone.b * y + bone.worldX)
            + SkinX(j, m + 1)
SkinY(j, m) ==
  IF m >= GroupSize(mesh.bones, j) THEN 0
  ELSE LET e == FirstEntry(mesh.bones, j) + m
           bone == skeletonBones[mesh.bones[GroupIndex(mesh.bones, j) + m + 2] + 1]
           dx == IF slot.deform = <<>> THEN 0 ELSE slot.deform[2 * e + 1]
           dy == IF slot.deform = <<>> THEN 0 ELSE slot.deform[2 * e + 2]
           x == mesh.vertices[3 * e + 1] + dx
           y == mesh.vertices[3 * e + 2] + dy
       IN mesh.vertices[3 * e + 3] * (bone.c * x + bone.d * y + bone.worldY)
            + SkinY(j, m + 1)

\* C6: on a weighted attachment, for even start and count within
\* worldVerticesLength, output pair k is the sum over the bone entries of
\* vertex start/2 + k of weight * (linear part applied to (x + dx, y + dy) +
\* world translation), (dx, dy) being the deform pair at the same entry index
\* (zero when the deform buffer is empty); the entries of the start/2 skipped
\* vertices do not enter the result, and no other output entry changes.
C6_Weighted ==
  (call.op = "compute" /\ mesh.bones # NoBones) =>
    \A i \in 0..(OutLen - 1) :
      worldVertices[i + 1] =
        IF PairAt(i) # {}
          THEN SkinX((call.start \div 2) + TheOne(PairAt(i)), 0)
        ELSE IF PairAfter(i) # {}
          THEN SkinY((call.start \div 2) + TheOne(PairAfter(i)), 0)
        ELSE call.pre[i + 1]

\* A weighted attachment with a vertex of two bones before the start and a
\* vertex of two different bones in range was transformed with a deform.
C6_Witness ==
  /\ call.op = "compute" /\ mesh.bones # NoBones
  /\ slot.deform # <<>>
  /\ call.start = 2 /\ call.count = 4
  /\ GroupSize(mesh.bones, 0) = 2
  /\ GroupSize(mesh.bones, 1) = 2
  /\ mesh.bones[GroupIndex(mesh.bones, 1) + 2] # mesh.bones[GroupIndex(mesh.bones, 1) + 3]
  /\ mesh.vertices[3 * FirstEntry(mesh.bones, 1) + 3] # 1
  /\ worldVertices[call.offset + 1] = SkinX(1, 0)

\* Every vertex of the attachment is bound to the single bone of the slot
\* with weight 1.
SingleBone ==
  /\ mesh.bones # NoBones
  /\ \A j \in 0..(NumVerts - 1) :
       /\ GroupSize(mesh.bones, j) = 1
       /\ mesh.bones[GroupIndex(mesh.bones, j) + 2] + 1 = slot.bone
       /\ mesh.vertices[3 * FirstEntry(mesh.bones, j) + 3] = 1

\* The unweighted attachment with the same local (x, y) per vertex.
SameXY ==
  UnweightedMesh(Flatten([j \in 1..NumVerts |->
     <<mesh.vertices[3 * (j - 1) + 1], mesh.vertices[3 * (j - 1) + 2]>>]))

\* C7: with the same start, count, offset and stride, a weighted attachment
\* whose every vertex is bound to the single bone B with weight 1, without
\* deform, gives the same output buffer as the unweighted attachment with the
\* same (x, y) vertices on a slot whose bone is B with an empty deform buffer.
C7_WeightedAgreesWithUnweighted ==
  (call.op = "compute" /\ SingleBone /\ slot.deform = <<>>) =>
    worldVertices =
      computeWorldVertices(SameXY, slot, skeletonBones, call.start, call.count,
                           call.pre, call.offset, call.stride)

\* A single-bone weight-1 attachment on the second bone was transformed.
C7_Witness ==
  /\ call.op = "compute" /\ SingleBone /\ slot.deform = <<>>
  /\ slot.bone = 2
  /\ call.start = 2 /\ call.count = 4 /\ call.stride = 3
  /\ worldVertices # call.pre

\* ------------------------------------------------------- Slot claims
\* C1: Slot.setAttachment(X) with X the slot's current attachment leaves the
\* attachment, the attachment-time stamp and the deform buffer unchanged;
\* with a different X (null included) the attachment becomes X, the stamp
\* becomes the skeleton's current time and the deform buffer becomes empty.
C1_SetAttachmentContract ==
  last.op = "setAttachment" =>
    IF last.attachment = last.pre.attachment
      THEN /\ slot.attachment = last.pre.attachment
           /\ slot.attachmentTime = last.pre.attachmentTime
           /\ slot.deform = last.pre.deform
      ELSE /\ slot.attachment = last.attachment
           /\ slot.attachmentTime = time
           /\ slot.deform = <<>>

\* setAttachment was called with the attachment the slot already held, while
\* the deform buffer was filled and the stamp was older than the clock.
C1_Witness ==
  /\ last.op = "setAttachment"
  /\ last.attachment = last.pre.attachment
  /\ last.attachment # NoAttachment
  /\ last.pre.deform # <<>>
  /\ last.pre.attachmentTime # time
  /\ slot.deform # <<>>

\* C2: every operation that changes the identity of the slot's current
\* attachment leaves the deform buffer empty and the attachment-time stamp
\* equal to the skeleton's current time.
C2_ChangeResets ==
  slot.attachment # last.pre.attachment =>
    /\ slot.deform = <<>>
    /\ slot.attachmentTime = time

\* C3: after Slot.setToSetupPose() the current attachment is the skeleton's
\* lookup of (data.index, data.attachmentName), or null when the setup name
\* is null, the attachment-time stamp is the skeleton's current time and the
\* deform buffer is empty.
C3_SetupPoseResets ==
  last.op = "setToSetupPose" =>
    /\ slot.attachment =
         IF data.attachmentName = NoName THEN NoAttachment
         ELSE SkeletonGetAttachment(skin, data.index, data.attachmentName)
    /\ slot.attachmentTime = time
    /\ slot.deform = <<>>

\* C4: Slot.getAttachmentTime() is the skeleton's current time minus the
\* skeleton time at which the slot's attachment was last set or cleared.
C4_ElapsedSinceChange ==
  getAttachmentTime(slot, time) = time - changedAt

\* C15 (as stated): with a clock that never decreases, no call of
\* setAttachment, setToSetupPose or setAttachmentTime and no clock advance
\* makes the attachment-time stamp smaller than it was.
C15_StampMonotonic ==
  slot.attachmentTime >= last.pre.attachmentTime

\* C15 (amended): with a clock that never decreases, setAttachment,
\* setToSetupPose and clock advances never make the stamp smaller, provided
\* the stamp was not ahead of the clock (where only setAttachmentTime with a
\* negative argument puts it); setAttachmentTime(t) sets the stamp to the
\* clock minus t, whatever it was.
C15_StampRewoundOnlyBySetAttachmentTime ==
  /\ (last.op # "setAttachmentTime" /\ last.pre.attachmentTime <= last.preTime) =>
       slot.attachmentTime >= last.pre.attachmentTime
  /\ last.op = "setAttachmentTime" => slot.attachmentTime = time - last.arg

\* setAttachment changed the attachment after the clock had advanced and the
\* stamp, rewound before by setAttachmentTime, moved up to the clock.
C15_Witness ==
  /\ last.op = "setAttachment"
  /\ last.pre.attachmentTime < 0
  /\ time > 0
  /\ slot.attachmentTime = time

\* --------------------------------------------------------------------------
\* Mesh attachments: two meshes as a loader builds them, then any calls of
\* setParentMesh, copy, newLinkedMesh, updateUVs and in-place array writes;
\* the variable calls counts the calls that link, construct or write.
\* --------------------------------------------------------------------------
TheHeap == [meshes |-> meshes, heap |-> heap, nextID |-> nextID]

\* A loader constructs a mesh, assigns its arrays and metrics and, when it
\* has a region, calls updateUVs.
LoadMesh(H, name, region, bonesArr, verticesArr, wvl, uvArr, trianglesArr, edgesArr, hull, w, h) ==
  LET H1 == newMeshAttachment(H, name, name)
      c == Len(H1.meshes)
      me == H1.meshes[c]
      H2 == [H1 EXCEPT !.heap = [@ EXCEPT ![me.vertices] = verticesArr,
                                          ![me.regionUVs] = uvArr,
                                          ![me.triangles] = trianglesArr,
                                          ![me.edges] = edgesArr,
                                          ![me.color] = Red],
                       !.meshes[c] = [@ EXCEPT !.region = region,
                                               !.worldVerticesLength = wvl,
                                               !.hullLength = hull,
                                               !.width = w, !.height = h]]
      H3 == IF bonesArr = NoBones THEN H2
            ELSE [H2 EXCEPT !.heap = Append(@, bonesArr),
                            !.meshes[c].bones = Len(H2.heap) + 1]
  IN IF region = NoRegion THEN H3 ELSE updateUVs(H3, c).H

MeshInit ==
  /\ SlotIdle
  /\ slot = NewSlot(data, 1, skin, 0)
  /\ last = [op |-> "new", attachment |-> NoAttachment, arg |-> 0,
             pre |-> slot, preTime |-> 0]
  /\ SkinIdle
  /\ DataIdle
  /\ \E r1 \in {1, 3}, r2 \in {NoRegion} :
       LET H0 == [meshes |-> <<>>, heap |-> <<>>, nextID |-> 0]
           H1 == LoadMesh(H0, "body", r1, <<1, 0, 1, 1>>, <<1, 2, 1, 3, 4, 1>>, 4,
                          <<0, 0, 0, 1>>, <<0, 1, 1>>, <<0, 2>>, 4, 32, 16)
           H2 == LoadMesh(H1, "head", r2, NoBones, <<5, 6, 7, 8>>, 4,
                          <<1, 0, 1, 1>>, <<1, 0, 0>>, <<2, 0>>, 2, 8, 4)
       IN /\ meshes = H2.meshes
          /\ heap = H2.heap
          /\ nextID = H2.nextID
  /\ calls = 0
  /\ mlast = NoMeshOp
  /\ fresh = {}
  /\ clones = {}

MeshOp(name, on, arg, field, error, ret) ==
  [op |-> name, target |-> on, arg |-> arg, field |-> field,
   error |-> error, ret |-> ret]

MeshUnchanged == UNCHANGED <<time, slot, data, skin, last, changedAt, skinVars, dataVars>>

IsMesh(x) == meshes[x].kind = "mesh"
IsLinked(x) == IsMesh(x) /\ meshes[x].parentMesh # NoMesh

\* l.setParentMesh(p), p possibly null.
SetParentMesh(l, p) ==
  /\ calls < MaxCalls
  /\ IsMesh(l) /\ (p # NoMesh => IsMesh(p))
  /\ \E H \in {setParentMesh(TheHeap, l, p)} :
       /\ meshes' = H.meshes /\ heap' = H.heap /\ nextID' = H.nextID
  /\ calls' = calls + 1
  /\ mlast' = MeshOp("setParentMesh", l, p, "none", FALSE, NoMesh)
  /\ fresh' = IF p = NoMesh THEN fresh \ {l}
              ELSE (fresh \ {x \in DOMAIN meshes :
                               x # l /\ IsMesh(x) /\ meshes[x].parentMesh = l}) \cup {l}
  /\ clones' = IF p = NoMesh THEN clones
               ELSE {c \in clones : c[1] # l /\ c[2] # l}
  /\ MeshUnchanged

\* m.newLinkedMesh()
NewLinkedMesh(m) ==
  /\ calls < MaxCalls
  /\ IsMesh(m)
  /\ \E r \in {newLinkedMesh(TheHeap, m)} :
       /\ meshes' = r.H.meshes /\ heap' = r.H.heap /\ nextID' = r.H.nextID
       /\ mlast' = MeshOp("newLinkedMesh", m, 0, "none", r.error, r.ret)
       /\ fresh' = IF r.error THEN fresh ELSE fresh \cup {r.ret}
  /\ calls' = calls + 1
  /\ UNCHANGED clones
  /\ MeshUnchanged

\* m.copy()
Copy(m) ==
  /\ calls < MaxCalls
  /\ \E r \in {Attachment_copy(TheHeap, m)} :
       /\ meshes' = r.H.meshes /\ heap' = r.H.heap /\ nextID' = r.H.nextID
       /\ mlast' = MeshOp("copy", m, 0, "none", r.error, r.ret)
       /\ fresh' = IF ~r.error /\ IsLinked(m) THEN fresh \cup {r.ret} ELSE fresh
       /\ clones' = IF ~r.error /\ ~IsLinked(m)
                      THEN clones \cup {<<m, r.ret>>} ELSE clones
  /\ calls' = calls + 1
  /\ MeshUnchanged

\* m.updateUVs()
UpdateUVs(m) ==
  /\ IsMesh(m)
  /\ \E r \in {updateUVs(TheHeap, m)} :
       /\ meshes' = r.H.meshes /\ heap' = r.H.heap /\ nextID' = r.H.nextID
       /\ mlast' = MeshOp("updateUVs", m, 0, "none", r.error, NoMesh)
  /\ UNCHANGED <<calls, fresh, clones>>
  /\ MeshUnchanged

\* An in-place write m.f[i] = value into one of the arrays of attachment m,
\* its Color object included (m.color.r = value).
WriteBuffer(m, f, i) ==
  /\ calls < MaxCalls
  /\ f \in DOMAIN meshes[m]
  /\ meshes[m][f] # NoBuf
  /\ i < Len(heap[meshes[m][f]])
  /\ heap' = [heap EXCEPT ![meshes[m][f]][i + 1] = @ + 10]
  /\ calls' = calls + 1
  /\ mlast' = MeshOp("write", m, i, f, FALSE, NoMesh)
  /\ UNCHANGED <<meshes, nextID, fresh, clones>>
  /\ MeshUnchanged

MeshNext ==
  \/ \E l \in DOMAIN meshes, p \in {NoMesh} \cup DOMAIN meshes : SetParentMesh(l, p)
  \/ \E m \in DOMAIN meshes : NewLinkedMesh(m)
  \/ \E m \in DOMAIN meshes : Copy(m)
  \/ \E m \in DOMAIN meshes : UpdateUVs(m)
  \/ \E m \in DOMAIN meshes, f \in {"bones", "vertices", "triangles"}, i \in {0} :
       WriteBuffer(m, f, i)

SpecMesh == MeshInit /\ [][MeshNext]_vars

\* ------------------------------------------------------ linked mesh claims
SharedArrays == {"bones", "vertices", "regionUVs", "triangles"}
Aliases(l, p) == \A f \in SharedArrays : meshes[l][f] = meshes[p][f]

C9_SharesEightFields ==
  LET l == IF mlast.op = "setParentMesh" THEN mlast.target ELSE mlast.ret
  IN ( \/ mlast.op = "setParentMesh" /\ mlast.arg # NoMesh
       \/ mlast.op = "newLinkedMesh" /\ ~mlast.error ) =>
       LET p == meshes[l].parentMesh
       IN /\ Aliases(l, p)
          /\ meshes[l].hullLength = meshes[p].hullLength
          /\ heap[meshes[l].edges] = heap[meshes[p].edges]
          /\ meshes[l].width = meshes[p].width
          /\ meshes[l].height = meshes[p].height

\* The mesh a successful copy() or newLinkedMesh() returned.
Returned == meshes[mlast.ret]
Source == meshes[mlast.target]

\* C10 (as stated): copy() of a linked mesh returns a linked mesh whose parent
\* is the source's parent, never the source itself, and whose bones,
\* vertices, regionUVs and triangles are the parent's arrays; newLinkedMesh()
\* of a non-linked mesh returns a mesh whose parent is that mesh.
C10_CopyOfLinkedNeverSource ==
  /\ (mlast.op = "copy" /\ ~mlast.error /\ Source.parentMesh # NoMesh) =>
       /\ Returned.parentMesh = Source.parentMesh
       /\ Returned.parentMesh # mlast.target
       /\ Aliases(mlast.ret, Returned.parentMesh)
  /\ (mlast.op = "newLinkedMesh" /\ ~mlast.error /\ Source.parentMesh = NoMesh) =>
       Returned.parentMesh = mlast.target

\* C10 (amended): copy() of a linked mesh returns a new linked mesh whose
\* parent is the source's parent (the source itself only when the source is
\* its own parent) and whose bones, vertices, regionUVs and triangles are the
\* parent's arrays, not clones; newLinkedMesh() of a non-linked mesh returns
\* a mesh whose parent is that mesh.
C10_CopyOfLinked ==
  /\ (mlast.op = "copy" /\ ~mlast.error /\ Source.parentMesh # NoMesh) =>
       /\ mlast.ret # mlast.target
       /\ Returned.parentMesh = Source.parentMesh
       /\ (Source.parentMesh # mlast.target => Returned.parentMesh # mlast.target)
       /\ Aliases(mlast.ret, Returned.parentMesh)
  /\ (mlast.op = "newLinkedMesh" /\ ~mlast.error /\ Source.parentMesh = NoMesh) =>
       /\ Returned.parentMesh = mlast.target
       /\ Aliases(mlast.ret, mlast.target)

\* A mesh linked to another mesh was copied.
C10_Witness ==
  /\ mlast.op = "copy" /\ ~mlast.error
  /\ Source.parentMesh # NoMesh
  /\ Source.parentMesh # mlast.target
  /\ Returned.parentMesh = Source.parentMesh
  /\ Returned.vertices = meshes[Source.parentMesh].vertices

\* --------------------------------------------------------------------------
\* Copies: a mesh, a bounding box and a clipping attachment as a loader
\* builds them, then any calls of copy, newLinkedMesh, setParentMesh and
\* in-place writes to the arrays and Color objects of the attachments.
\* --------------------------------------------------------------------------
\* A loader fills the vertex data of attachment c.
LoadVertices(H, c, bonesArr, verticesArr, wvl) ==
  LET H1 == [H EXCEPT !.heap[H.meshes[c].vertices] = verticesArr,
                      !.meshes[c].worldVerticesLength = wvl]
  IN IF bonesArr = NoBones THEN H1
     ELSE [H1 EXCEPT !.heap = Append(@, bonesArr),
                     !.meshes[c].bones = Len(H1.heap) + 1]

CopyInit ==
  /\ SlotIdle
  /\ slot = NewSlot(data, 1, skin, 0)
  /\ last = [op |-> "new", attachment |-> NoAttachment, arg |-> 0,
             pre |-> slot, preTime |-> 0]
  /\ SkinIdle
  /\ DataIdle
  /\ \E n0 \in {0, IdMask - 2} :
       LET H0 == [meshes |-> <<>>, heap |-> <<>>, nextID |-> n0]
           H1 == LoadMesh(H0, "body", 3, <<1, 0, 1, 1>>, <<1, 2, 1, 3, 4, 1>>, 4,
                          <<0, 0, 0, 1>>, <<0, 1, 1>>, <<0, 2>>, 4, 32, 16)
           H2 == LoadVertices(newBoundingBoxAttachment(H1, "box"), 2,
                              NoBones, <<5, 6, 7, 8>>, 4)
           H3 == LoadVertices(newClippingAttachment(H2, "clip"), 3,
                              <<1, 1, 1, 0>>, <<2, 3, 1, 4, 5, 1>>, 4)
           H4 == [H3 EXCEPT !.meshes[3].endSlot = 1]
       IN /\ meshes = H4.meshes
          /\ heap = H4.heap
          /\ nextID = H4.nextID
  /\ calls = 0
  /\ mlast = NoMeshOp
  /\ fresh = {}
  /\ clones = {}

CopyNext ==
  \/ \E m \in DOMAIN meshes : Copy(m)
  \/ \E m \in DOMAIN meshes : NewLinkedMesh(m)
  \/ \E l \in DOMAIN meshes, p \in DOMAIN meshes : SetParentMesh(l, p)
  \/ \E m \in DOMAIN meshes, f \in BufFields \cup {"color"}, i \in {0} :
       WriteBuffer(m, f, i)

SpecCopy == CopyInit /\ [][CopyNext]_vars

\* ------------------------------------------------------------- copy claims
\* The arrays and the Color object attachment x refers to, and what they hold.
RefFields(x) == {f \in (BufFields \cup {"color"}) \cap DOMAIN meshes[x] : meshes[x][f] # NoBuf}
Refs(x) == {meshes[x][f] : f \in RefFields(x)}
Contents(x) == [f \in RefFields(x) |-> heap[meshes[x][f]]]

\* The clone has the name and the contents of the source: bones, vertices,
\* worldVerticesLength and, for meshes, regionUVs, uvs, triangles, hullLength
\* and edges; the color too.
SameContents(s, k) ==
  /\ meshes[k].kind = meshes[s].kind
  /\ meshes[k].name = meshes[s].name
  /\ Contents(k) = Contents(s)
  /\ meshes[k].worldVerticesLength = meshes[s].worldVerticesLength
  /\ IsMesh(s) => meshes[k].hullLength = meshes[s].hullLength

\* Source and clone are different objects with no array or Color in common.
Separate(s, k) ==
  /\ k # s
  /\ Refs(k) \cap Refs(s) = {}
  /\ IsMesh(k) => meshes[k].parentMesh # s

\* A step that writes into an array or the Color of one of a pair leaves
\* everything read through the other as it was.
WriteIsolated ==
  \A c \in clones : \A x \in {1, 2} :
    (mlast'.op = "write" /\ mlast'.target = c[x]) =>
      Contents(c[3 - x])' = Contents(c[3 - x])

\* copy() returned the clone of a source that is not a linked mesh.
JustCloned == mlast.op = "copy" /\ ~mlast.error /\ <<mlast.target, mlast.ret>> \in clones

\* C11 (as stated): copy() of a non-linked mesh, a bounding box or a clipping
\* attachment returns a clone with the name and contents of the source that
\* holds no reference to the source, and no later in-place write to the
\* buffers or color of one is seen through the other.
C11_DeepIndependentClone ==
  /\ [](JustCloned => /\ SameContents(mlast.target, mlast.ret)
                      /\ meshes[mlast.ret].deformAttachment # mlast.target)
  /\ [](\A c \in clones : Separate(c[1], c[2]))
  /\ [][WriteIsolated]_vars

\* C11 (amended): the clone has the name and contents of the source and its
\* own arrays and Color; its deformAttachment is the source's
\* deformAttachment, which is the source itself unless that was reassigned,
\* and it holds no other reference to the source; until setParentMesh links
\* one of the two, no in-place write to the buffers or color of one is seen
\* through the other.
C11_CloneSharesOnlyDeformAttachment ==
  /\ [](JustCloned => /\ SameContents(mlast.target, mlast.ret)
                      /\ meshes[mlast.ret].deformAttachment =
                           meshes[mlast.target].deformAttachment)
  /\ [](\A c \in clones : Separate(c[1], c[2]))
  /\ [][WriteIsolated]_vars

\* The vertices of the clone of a clipping attachment were written in place
\* and the source, whose deformAttachment the clone holds, kept its own.
C11_Witness ==
  /\ mlast.op = "write" /\ mlast.field = "vertices"
  /\ \E c \in clones :
       /\ c[2] = mlast.target
       /\ meshes[c[1]].kind = "clipping"
       /\ meshes[c[2]].deformAttachment = c[1]
       /\ heap[meshes[c[2]].vertices] # heap[meshes[c[1]].vertices]

\* --------------------------------------------------------------------------
\* SkeletonData lookups: a loader fills the eight lists, each in an order of
\* its own, and a caller looks names up.
\* --------------------------------------------------------------------------
NameLists == UNION {[1..n -> ListNames] : n \in 0..MaxNames}

\* The list with the two names exchanged.
Swap(names) == [i \in 1..Len(names) |-> IF names[i] = "a" THEN "b" ELSE "a"]

DataInit ==
  /\ SlotIdle
  /\ slot = NewSlot(data, 1, skin, 0)
  /\ last = [op |-> "new", attachment |-> NoAttachment, arg |-> 0,
             pre |-> slot, preTime |-> 0]
  /\ SkinIdle
  /\ MeshIdle
  /\ \E l1 \in NameLists :
       LET l2 == Swap(l1)
       IN skeletonData =
            [bones |-> Objects(l1, 0),
             slots |-> Objects(Reverse(l1), 10),
             skins |-> Objects(l2, 20),
             events |-> Objects(Reverse(l2), 30),
             animations |-> Objects(l2 \o l1, 40),
             ikConstraints |-> Objects(l1 \o l2, 50),
             transformConstraints |-> Objects(Reverse(l1) \o l1, 60),
             pathConstraints |-> Objects(l1 \o Reverse(l1), 70)]
  /\ found = NoFind
  /\ target = NoSlot

\* skeletonData.method(name)
Find(method, name) ==
  /\ found' = [method |-> method, name |-> name,
               result |-> Call(method, skeletonData, name), pre |-> skeletonData]
  /\ UNCHANGED <<skeletonData, target>>
  /\ UNCHANGED <<time, slot, data, skin, last, changedAt, skinVars, meshVars>>

DataNext ==
  \E method \in Finders, name \in LookupNames \cup {NoName, Undefined} : Find(method, name)

SpecData == DataInit /\ [][DataNext]_vars

\* ------------------------------------------------------------ lookup claims
\* The list a find method is documented to search.
ListOf(method) ==
  CASE method \in {"findBone", "findBoneIndex"} -> skeletonData.bones
    [] method \in {"findSlot", "findSlotIndex"} -> skeletonData.slots
    [] method = "findSkin" -> skeletonData.skins
    [] method = "findEvent" -> skeletonData.events
    [] method = "findAnimation" -> skeletonData.animations
    [] method = "findIkConstraint" -> skeletonData.ikConstraints
    [] method = "findTransformConstraint" -> skeletonData.transformConstraints
    [] method \in {"findPathConstraint", "findPathConstraintIndex"} ->
         skeletonData.pathConstraints

Matches(list, name) == {i \in 1..Len(list) : list[i].name = name}
First(S) == CHOOSE i \in S : \A j \in S : i <= j

\* C12: every find-by-name lookup of SkeletonData fails with an error
\* exactly when the argument is null (null or undefined, which the == null
\* test of the source does not tell apart); otherwise it returns the first
\* element in list order whose name equals the argument (its zero-based
\* index for the index variants), or null (-1 for the index variants) when
\* no element matches; the container is never modified.
C12_FindFirstByName ==
  found.method # "none" =>
    LET list == ListOf(found.method)
        hits == Matches(list, found.name)
    IN /\ found.result.error <=> IsNull(found.name)
       /\ ~found.result.error =>
            found.result.value =
              IF hits = {}
                THEN (IF found.method \in IndexFinders THEN NoIndex ELSE NoObject)
                ELSE (IF found.method \in IndexFinders THEN First(hits) - 1
                      ELSE list[First(hits)])
       /\ skeletonData = found.pre

\* A name held by two path constraints, neither of them the first of the
\* list, was looked up by index and the index of the earlier one came back.
C12_Witness ==
  /\ found.method = "findPathConstraintIndex"
  /\ ~found.result.error
  /\ found.result.value = 1
  /\ Cardinality(Matches(skeletonData.pathConstraints, found.name)) >= 2

\* --------------------------------------------------------------------------
\* Misuse: a mesh with a region, a mesh without one, a mesh linked to the
\* first before its region was assigned, and a path constraint whose target
\* has not been assigned.
\* --------------------------------------------------------------------------
NoRead == [method |-> "none", name |-> NoName, result |-> Value(NoSlot), pre |-> NoSlot]

MisuseInit ==
  /\ SlotIdle
  /\ slot = NewSlot(data, 1, skin, 0)
  /\ last = [op |-> "new", attachment |-> NoAttachment, arg |-> 0,
             pre |-> slot, preTime |-> 0]
  /\ SkinIdle
  /\ LET H0 == [meshes |-> <<>>, heap |-> <<>>, nextID |-> 0]
         H1 == LoadMesh(H0, "body", 3, <<1, 0, 1, 1>>, <<1, 2, 1, 3, 4, 1>>, 4,
                        <<0, 0, 0, 1>>, <<0, 1, 1>>, <<0, 2>>, 4, 32, 16)
         H2 == LoadMesh(H1, "head", NoRegion, NoBones, <<5, 6, 7, 8>>, 4,
                        <<1, 0, 1, 1>>, <<1, 0, 0>>, <<2, 0>>, 2, 8, 4)
         H3 == setParentMesh(newMeshAttachment(H2, "hat", "hat"), 3, 1)
     IN /\ meshes = H3.meshes
        /\ heap = H3.heap
        /\ nextID = H3.nextID
  /\ calls = 0
  /\ mlast = NoMeshOp
  /\ fresh = {3}
  /\ clones = {}
  /\ skeletonData = <<>>
  /\ found = NoRead
  /\ target = NoSlot

\* pathConstraintData.target = slotData
SetTarget(slotData) ==
  /\ target' = setTarget(target, slotData)
  /\ UNCHANGED <<skeletonData, found>>
  /\ UNCHANGED <<time, slot, data, skin, last, changedAt, skinVars, meshVars>>

\* a read of pathConstraintData.target
GetTarget ==
  /\ found' = [method |-> "target", name |-> NoName, result |-> getTarget(target),
               pre |-> target]
  /\ UNCHANGED <<skeletonData, target>>
  /\ UNCHANGED <<time, slot, data, skin, last, changedAt, skinVars, meshVars>>

MisuseNext ==
  \/ \E m \in DOMAIN meshes : UpdateUVs(m)
  \/ \E m \in DOMAIN meshes : NewLinkedMesh(m)
  \/ \E m \in DOMAIN meshes : Copy(m)
  \/ \E slotData \in {NoSlot, 1, 2} : SetTarget(slotData)
  \/ GetTarget

SpecMisuse == MisuseInit /\ [][MisuseNext]_vars

\* ------------------------------------------------------------ misuse claims
\* What the last read of target and the last mesh call did.
TargetRead ==
  found.method = "target" =>
    /\ found.result.error <=> found.pre = NoSlot
    /\ ~found.result.error => found.result.value = found.pre
RegionNeeded ==
  /\ mlast.op = "updateUVs" =>
       (mlast.error <=> meshes[mlast.target].region = NoRegion)
  /\ (mlast.op = "newLinkedMesh" /\ meshes[mlast.target].region = NoRegion) =>
       mlast.error
  /\ (mlast.op = "copy" /\ IsLinked(mlast.target)
        /\ meshes[mlast.target].region = NoRegion) => mlast.error
  /\ mlast.error => mlast.ret = NoMesh

\* A call that fails leaves every attachment and every array as it was.
FailureChangesNothing ==
  /\ mlast'.error => (meshes' = meshes /\ heap' = heap)
  /\ (found' # found /\ found'.result.error) => target' = target

\* C13: a read of PathConstraintData.target fails while no slot is assigned
\* and returns the assigned slot otherwise; updateUVs() fails exactly when
\* the region of the mesh is not set; newLinkedMesh() of a mesh with no
\* region and copy() of a linked mesh with no region fail; a failing call
\* leaves the target, the meshes and their arrays (uvs included) unchanged.
C13_MisuseFailsUnchanged ==
  /\ [](TargetRead /\ RegionNeeded)
  /\ [][FailureChangesNothing]_vars

\* A linked mesh with no region was copied, which failed, after a read of
\* the target had failed and a slot was then assigned.
C13_Witness ==
  /\ mlast.op = "copy" /\ mlast.error
  /\ IsLinked(mlast.target)
  /\ found.method = "target" /\ found.result.error
  /\ target # NoSlot

\* --------------------------------------------------------------------------
\* UV remap: one mesh whose uvs were computed from an earlier regionUVs
\* array (or never), then any assignments of its region and calls of
\* updateUVs.
\* --------------------------------------------------------------------------
UnitSquare == <<0, 0, 1, 0, 1, 1, 0, 1>>
RegionUVLists == [1..2 -> 0..MaxUV] \cup {UnitSquare}
StaleLists == {<<>>, <<0, 1>>, UnitSquare}

UVInit ==
  /\ SlotIdle
  /\ slot = NewSlot(data, 1, skin, 0)
  /\ last = [op |-> "new", attachment |-> NoAttachment, arg |-> 0,
             pre |-> slot, preTime |-> 0]
  /\ SkinIdle
  /\ DataIdle
  /\ \E old \in StaleLists, new \in RegionUVLists :
       LET H0 == [meshes |-> <<>>, heap |-> <<>>, nextID |-> 0]
           H1 == LoadMesh(H0, "body", 2, NoBones, <<5, 6, 7, 8>>, 4,
                          old, <<0, 1, 1>>, <<0, 2>>, 4, 32, 16)
           H2 == [H1 EXCEPT !.heap = Append(@, new),
                            !.meshes[1].regionUVs = Len(H1.heap) + 1]
       IN /\ meshes = H2.meshes
          /\ heap = H2.heap
          /\ nextID = H2.nextID
  /\ calls = 0
  /\ mlast = NoMeshOp
  /\ fresh = {}
  /\ clones = {}

\* m.region = r, r possibly null.
SetRegion(m, r) ==
  /\ IsMesh(m)
  /\ meshes' = [meshes EXCEPT ![m].region = r]
  /\ mlast' = MeshOp("setRegion", m, r, "none", FALSE, NoMesh)
  /\ UNCHANGED <<heap, nextID, calls, fresh, clones>>
  /\ MeshUnchanged

UVNext ==
  \/ \E m \in DOMAIN meshes, r \in {NoRegion} \cup DOMAIN Regions : SetRegion(m, r)
  \/ \E m \in DOMAIN meshes : UpdateUVs(m)

SpecUV == UVInit /\ [][UVNext]_vars

\* ---------------------------------------------------------------- uv claims
\* The offset-adjusted u, v, width and height of a region, by rotation.
Adjusted(r) ==
  LET tw == r.textureWidth
      th == r.textureHeight
  IN CASE ~r.atlas ->
            [u |-> r.u, v |-> r.v, width |-> r.u2 - r.u, height |-> r.v2 - r.v]
       [] r.atlas /\ r.degrees = 90 ->
            [u |-> r.u - (r.originalHeight - r.offsetY - r.height) \div tw,
             v |-> r.v - (r.originalWidth - r.offsetX - r.width) \div th,
             width |-> r.originalHeight \div tw, height |-> r.originalWidth \div th]
       [] r.atlas /\ r.degrees = 180 ->
            [u |-> r.u - (r.originalWidth - r.offsetX - r.width) \div tw,
             v |-> r.v - r.offsetY \div th,
             width |-> r.originalWidth \div tw, height |-> r.originalHeight \div th]
       [] r.atlas /\ r.degrees = 270 ->
            [u |-> r.u - r.offsetY \div tw,
             v |-> r.v - r.offsetX \div th,
             width |-> r.originalHeight \div tw, height |-> r.originalWidth \div th]
       [] OTHER ->
            [u |-> r.u - r.offsetX \div tw,
             v |-> r.v - (r.originalHeight - r.offsetY - r.height) \div th,
             width |-> r.originalWidth \div tw, height |-> r.originalHeight \div th]

\* The documented remap of the pair (ru, rv) for a rotation.
Remap(deg, a, ru, rv) ==
  CASE deg = 90 -> <<a.u + rv * a.width, a.v + (1 - ru) * a.height>>
    [] deg = 180 -> <<a.u + (1 - ru) * a.width, a.v + (1 - rv) * a.height>>
    [] deg = 270 -> <<a.u + (1 - rv) * a.width, a.v + ru * a.height>>
    [] OTHER -> <<a.u + ru * a.width, a.v + rv * a.height>>

Rotation(r) == IF r.atlas THEN r.degrees ELSE 0

UVsRemapped ==
  (mlast.op = "updateUVs" /\ ~mlast.error) =>
    LET me == meshes[mlast.target]
        regionUVs == heap[me.regionUVs]
        uvs == heap[me.uvs]
        r == Regions[me.region]
    IN /\ Len(uvs) = Len(regionUVs)
       /\ \A k \in 1..(Len(regionUVs) \div 2) :
            <<uvs[2 * k - 1], uvs[2 * k]>> =
              Remap(Rotation(r), Adjusted(r), regionUVs[2 * k - 1], regionUVs[2 * k])

RegionUVsKept ==
  \A m \in DOMAIN meshes :
    mlast'.op = "updateUVs" /\ mlast'.target = m =>
      /\ meshes'[m].regionUVs = meshes[m].regionUVs
      /\ heap'[meshes[m].regionUVs] = heap[meshes[m].regionUVs]

\* C14: after updateUVs() on a mesh with a region, uvs has the length of
\* regionUVs and each pair (uvs[i], uvs[i+1]) is the remap of
\* (ru, rv) = (regionUVs[i], regionUVs[i+1]) for the rotation of the region:
\* unrotated (u + ru*width, v + rv*height), 90 degrees
\* (u + rv*width, v + (1 - ru)*height), 180 degrees
\* (u + (1 - ru)*width, v + (1 - rv)*height), 270 degrees
\* (u + (1 - rv)*width, v + ru*height), with the offset-adjusted u, v, width
\* and height of that rotation; regionUVs is not modified.
C14_UVRemap ==
  /\ []UVsRemapped
  /\ [][RegionUVsKept]_vars

\* updateUVs on a unit square with a region packed at 90 degrees replaced a
\* uvs array of another length by the four remapped corners.
C14_Witness ==
  /\ mlast.op = "updateUVs" /\ ~mlast.error
  /\ meshes[mlast.target].region = 3
  /\ heap[meshes[mlast.target].regionUVs] = UnitSquare
  /\ heap[meshes[mlast.target].uvs] = <<38, 63, 38, 59, 50, 59, 50, 63>>
  /\ \E i \in DOMAIN heap : heap[i] = <<38, 65>>

\* ---------------------------------------------------------------- id claims
\* C16: of any two vertex attachments, those made by copy() and
\* newLinkedMesh() included, the one constructed later has the strictly
\* greater id, however many were constructed before.
C16_IdsStrictlyIncrease ==
  \A i \in DOMAIN meshes : \A j \in DOMAIN meshes :
    i < j => meshes[i].id < meshes[j].id

====
